---- MODULE Spec2Model ----
(***************************************************************************)
(* Model of the loon_rule converter: scripts/convert_to_loon_no_action.js  *)
(* (general variant: flattenJson + toLoonLines) and its schema-driven      *)
(* revision (cleanDomainCandidate over rules[].domain / domain_suffix /    *)
(* domain_keyword).                                                        *)
(*                                                                         *)
(* JS strings are TLA+ strings (TLC evaluates Len, \o, SubSeq, Head, Tail  *)
(* on them).  JSON values are tagged records.                              *)
(***************************************************************************)
EXTENDS Integers, Sequences, FiniteSets, TLC

VARIABLES pc, entry, lines, v, raw, cleaned,
          variant, json, flat, idx, seen, out, threw, fetched, file, writes,
          exitCode

vars == <<pc, entry, lines, v, raw, cleaned,
          variant, json, flat, idx, seen, out, threw, fetched, file, writes,
          exitCode>>

(***************************************************************************)
(* Bounds of the model.                                                    *)
(***************************************************************************)
MaxLen == 3
MaxCands == 2

(***************************************************************************)
(* Characters and character classes used by the regular expressions.       *)
(***************************************************************************)
\* s.charAt(i - 1): "" outside the string
Ch(s, i) == IF i \in 1..Len(s) THEN SubSeq(s, i, i) ELSE ""

Chars(s) == {Ch(s, i) : i \in 1..Len(s)}

SetMin(S) == CHOOSE x \in S : \A y \in S : x <= y

SetMax(S) == CHOOSE x \in S : \A y \in S : x >= y

\* \d
Digits == Chars("0123456789")

LowerAlpha == "abcdefghijklmnopqrstuvwxyz"

UpperAlpha == "ABCDEFGHIJKLMNOPQRSTUVWXYZ"

\* [a-zA-Z]
Letters == Chars(LowerAlpha) \cup Chars(UpperAlpha)

\* \s, and the characters String.prototype.trim removes
WhiteSpace == {" ", "\t", "\n", "\r"}

\* every character of s is in set, and lo <= |s| <= hi
AllIn(s, set, lo, hi) ==
    /\ Len(s) >= lo
    /\ Len(s) <= hi
    /\ \A i \in 1..Len(s) : Ch(s, i) \in set

\* String.prototype.trim
Trim(s) ==
    LET keep == {i \in 1..Len(s) : Ch(s, i) \notin WhiteSpace}
    IN  IF keep = {} THEN "" ELSE SubSeq(s, SetMin(keep), SetMax(keep))

\* s.replace(/^[set]+/, "")
StripLeading(s, set) ==
    LET stop == {i \in 1..Len(s) : Ch(s, i) \notin set}
    IN  IF stop = {} THEN "" ELSE SubSeq(s, SetMin(stop), Len(s))

\* s.replace(/[set]+$/, "")
StripTrailing(s, set) ==
    LET stop == {i \in 1..Len(s) : Ch(s, i) \notin set}
    IN  IF stop = {} THEN "" ELSE SubSeq(s, 1, SetMax(stop))

\* String.prototype.startsWith
StartsWith(s, p) == Len(s) >= Len(p) /\ SubSeq(s, 1, Len(p)) = p

\* String.prototype.includes
Includes(s, p) ==
    \E i \in 1..(Len(s) + 1) :
        i + Len(p) - 1 <= Len(s) /\ SubSeq(s, i, i + Len(p) - 1) = p

\* s.replace(/pat/g, rep) for a literal, non-empty pat: leftmost matches,
\* scanning resumes after each replaced match
RECURSIVE ReplaceAll(_, _, _)
ReplaceAll(s, pat, rep) ==
    IF Len(s) < Len(pat) THEN s
    ELSE IF SubSeq(s, 1, Len(pat)) = pat
         THEN rep \o ReplaceAll(SubSeq(s, Len(pat) + 1, Len(s)), pat, rep)
         ELSE Head(s) \o ReplaceAll(Tail(s), pat, rep)

\* String.prototype.toLowerCase on the ASCII letters
LowerChar(c) ==
    IF c \in Chars(UpperAlpha)
    THEN Ch(LowerAlpha, CHOOSE i \in 1..Len(UpperAlpha) : Ch(UpperAlpha, i) = c)
    ELSE c

RECURSIVE toLowerCase(_)
toLowerCase(s) ==
    IF s = "" THEN "" ELSE LowerChar(Head(s)) \o toLowerCase(Tail(s))

(***************************************************************************)
(* The regular expressions of the general variant.                         *)
(***************************************************************************)
\* the pieces of s between the separators at the (sorted) positions of sep
Pieces(s, sep) ==
    LET at == {i \in 1..Len(s) : Ch(s, i) = sep}
        cut == at \cup {0, Len(s) + 1}
    IN  {SubSeq(s, a + 1, SetMin({b \in cut : b > a}) - 1) :
             a \in cut \ {Len(s) + 1}}

NumSep(s, sep) == Cardinality({i \in 1..Len(s) : Ch(s, i) = sep})

\* \d{1,3}(?:\.\d{1,3}){3}
IsIPv4(s) ==
    /\ NumSep(s, ".") = 3
    /\ \A p \in Pieces(s, ".") : AllIn(p, Digits, 1, 3)

\* RE_IP_CIDR = /^\d{1,3}(?:\.\d{1,3}){3}(?:\/\d{1,2})?$/
RE_IP_CIDR(s) ==
    \/ IsIPv4(s)
    \/ \E i \in 1..Len(s) :
          /\ Ch(s, i) = "/"
          /\ IsIPv4(SubSeq(s, 1, i - 1))
          /\ AllIn(SubSeq(s, i + 1, Len(s)), Digits, 1, 2)

\* RE_IP_RANGE = /^\d{1,3}(?:\.\d{1,3}){3}-\d{1,3}(?:\.\d{1,3}){3}$/
RE_IP_RANGE(s) ==
    \E i \in 1..Len(s) :
        /\ Ch(s, i) = "-"
        /\ IsIPv4(SubSeq(s, 1, i - 1))
        /\ IsIPv4(SubSeq(s, i + 1, Len(s)))

\* ([a-zA-Z0-9\-]+\.)+[a-zA-Z]{2,63}$
IsLabelsAndTld(s) ==
    LET dots == {i \in 1..Len(s) : Ch(s, i) = "."}
        last == SetMax(dots)
        labelChars == Letters \cup Digits \cup {"-"}
    IN  /\ dots # {}
        /\ AllIn(SubSeq(s, last + 1, Len(s)), Letters, 2, 63)
        /\ \A p \in Pieces(SubSeq(s, 1, last - 1), ".") :
               AllIn(p, labelChars, 1, Len(s))

\* RE_DOMAIN = /^(?:\*\.?){0,1}([a-zA-Z0-9\-]+\.)+[a-zA-Z]{2,63}$/
RE_DOMAIN(s) ==
    \E pre \in {"", "*", "*."} :
        /\ StartsWith(s, pre)
        /\ IsLabelsAndTld(SubSeq(s, Len(pre) + 1, Len(s)))

\* RE_ADBLOCK_PREFIX = /^\|\|([^\/\^]+)\^?$/ : TRUE when s matches
RE_ADBLOCK_PREFIX(s) ==
    /\ StartsWith(s, "||")
    /\ \E n \in 1..(Len(s) - 2) :
          /\ \A i \in 3..(2 + n) : Ch(s, i) \notin {"/", "^"}
          /\ \/ 2 + n = Len(s)
             \/ 2 + n = Len(s) - 1 /\ Ch(s, Len(s)) = "^"

\* m[1] of s.match(RE_ADBLOCK_PREFIX), for an s that matches: the capture is
\* greedy, and "^" cannot be part of it
AdblockCapture(s) ==
    IF Ch(s, Len(s)) = "^" THEN SubSeq(s, 3, Len(s) - 1)
    ELSE SubSeq(s, 3, Len(s))

\* RE_COMMENT = /^\s*(!|#)/
RE_COMMENT(s) == Ch(StripLeading(s, WhiteSpace), 1) \in {"!", "#"}

\* /[*\^\/\?\$\+\(\)\[\]\{\}\|]/
SpecialChars == Chars("*^/?$+()[]{}|")

HasSpecialChar(s) == \E i \in 1..Len(s) : Ch(s, i) \in SpecialChars

\* escapeForRegex: s.replace(/[.*+?^${}()|[\]\\]/g, "\\$&")
RegexMeta == Chars(".*+?^${}()|[]\\")

RECURSIVE escapeForRegex(_)
escapeForRegex(s) ==
    IF s = "" THEN ""
    ELSE (IF Head(s) \in RegexMeta THEN "\\" \o Head(s) ELSE Head(s))
             \o escapeForRegex(Tail(s))

(***************************************************************************)
(* JSON values as decoded by res.json(): tagged records.                   *)
(***************************************************************************)
\* one shape for every value: t is the type, and s, n, b or a holds the
\* string, the number, the boolean, or the members (elements of an array,
\* named properties of an object, in order)
Json(t, s, n, b, a) == [t |-> t, s |-> s, n |-> n, b |-> b, a |-> a]

Null == Json("null", "", 0, FALSE, <<>>)

\* the value of a property that is absent
Undefined == Json("undef", "", 0, FALSE, <<>>)

Bool(b) == Json("bool", "", 0, b, <<>>)

Num(n) == Json("num", "", n, FALSE, <<>>)

Str(s) == Json("str", s, 0, FALSE, <<>>)

\* els: the sequence of the elements
Arr(els) == Json("arr", "", 0, FALSE, [i \in DOMAIN els |-> [k |-> "", val |-> els[i]]])

\* kv: the sequence of <<key, value>> in the object's key order
Obj(kv) ==
    Json("obj", "", 0, FALSE, [i \in DOMAIN kv |-> [k |-> kv[i][1], val |-> kv[i][2]]])

\* Object.values(x), the elements of an array
Values(x) == [i \in 1..Len(x.a) |-> x.a[i].val]

\* Object.keys(o)
Keys(o) == IF o.t = "obj" THEN [i \in 1..Len(o.a) |-> o.a[i].k] ELSE <<>>

\* k in o, for the non-index keys the code probes (none is in an array)
HasKey(o, k) == o.t = "obj" /\ \E i \in 1..Len(o.a) : o.a[i].k = k

\* o[k]
Get(o, k) ==
    IF HasKey(o, k)
    THEN o.a[CHOOSE i \in 1..Len(o.a) : o.a[i].k = k].val
    ELSE Undefined

\* String(n) for a natural number
RECURSIVE NatToStr(_)
NatToStr(n) ==
    IF n < 10 THEN Ch("0123456789", n + 1)
    ELSE NatToStr(n \div 10) \o Ch("0123456789", (n % 10) + 1)

\* String(x)
RECURSIVE JsString(_)
RECURSIVE JoinComma(_)
JoinComma(a) ==
    IF a = <<>> THEN ""
    ELSE (IF Head(a).t \in {"null", "undef"} THEN "" ELSE JsString(Head(a)))
             \o (IF Len(a) > 1 THEN "," \o JoinComma(Tail(a)) ELSE "")

JsString(x) ==
    CASE x.t = "str" -> x.s
      [] x.t = "num" -> NatToStr(x.n)
      [] x.t = "bool" -> (IF x.b THEN "true" ELSE "false")
      [] x.t = "null" -> "null"
      [] x.t = "undef" -> "undefined"
      [] x.t = "arr" -> JoinComma(Values(x))
      [] x.t = "obj" -> "[object Object]"

\* the quoted form JSON.stringify gives a string
RECURSIVE JsonEscape(_)
JsonEscape(s) ==
    IF s = "" THEN ""
    ELSE (CASE Head(s) = "\"" -> "\\\""
            [] Head(s) = "\\" -> "\\\\"
            [] Head(s) = "\n" -> "\\n"
            [] Head(s) = "\t" -> "\\t"
            [] Head(s) = "\r" -> "\\r"
            [] OTHER -> Head(s)) \o JsonEscape(Tail(s))

\* JSON.stringify(x, null, "")
RECURSIVE JsonStringify(_)
RECURSIVE JsonMembers(_, _)
JsonMembers(a, isObj) ==
    IF a = <<>> THEN ""
    ELSE (IF isObj
          THEN "\"" \o JsonEscape(Head(a).k) \o "\":" \o JsonStringify(Head(a).val)
          ELSE JsonStringify(Head(a).val))
             \o (IF Len(a) > 1 THEN "," \o JsonMembers(Tail(a), isObj) ELSE "")

JsonStringify(x) ==
    CASE x.t = "str" -> "\"" \o JsonEscape(x.s) \o "\""
      [] x.t = "num" -> NatToStr(x.n)
      [] x.t = "bool" -> (IF x.b THEN "true" ELSE "false")
      [] x.t \in {"null", "undef"} -> "null"
      [] x.t = "arr" -> "[" \o JsonMembers(x.a, FALSE) \o "]"
      [] x.t = "obj" -> "{" \o JsonMembers(x.a, TRUE) \o "}"

(***************************************************************************)
(* toLoonLines, the classifier of the general variant.                     *)
(***************************************************************************)
\* the "||..." arm of the REGEX branch
RegexOfAnchored(s) ==
    ".*" \o ReplaceAll(ReplaceAll(escapeForRegex(SubSeq(s, 3, Len(s))),
                                  "\\*", ".*"), "\\^", "") \o ".*"

\* the s.startsWith(".") arm with the guard of the "||" arm added
DotLinesGuarded(s) ==
    IF StripLeading(s, {"."}) # ""
    THEN <<"DOMAIN-SUFFIX," \o StripLeading(s, {"."})>>
    ELSE <<>>

\* the s.startsWith(".") arm: the line is pushed whatever domain is
DotLines(s) == <<"DOMAIN-SUFFIX," \o StripLeading(s, {"."})>>

\* toLoonLines for typeof entry === "string"
StringLines(str) ==
    LET s == Trim(str)
        domain == StripLeading(Trim(AdblockCapture(s)), {"."})
        s_no_star == StripLeading(s, {"*", "."})
    IN  IF s = "" THEN <<>>
        ELSE IF RE_COMMENT(s) THEN <<>>
        ELSE IF RE_ADBLOCK_PREFIX(s)
             THEN (IF domain # "" THEN <<"DOMAIN-SUFFIX," \o domain>> ELSE <<>>)
        ELSE IF HasSpecialChar(s)
             THEN (IF StartsWith(s, "||")
                   THEN <<"REGEX," \o RegexOfAnchored(s)>>
                   ELSE <<"REGEX," \o ReplaceAll(escapeForRegex(s), "\\*", ".*")>>)
        ELSE IF RE_IP_CIDR(s) THEN <<"IP-CIDR," \o s>>
        ELSE IF RE_IP_RANGE(s) THEN <<"REGEX,^" \o escapeForRegex(s) \o "$">>
        ELSE IF StartsWith(s, ".") THEN DotLines(s)
        ELSE IF RE_DOMAIN(s_no_star) THEN <<"DOMAIN-SUFFIX," \o s_no_star>>
        ELSE <<"REGEX," \o escapeForRegex(s)>>

\* for (const k of keys) { if (k in entry) { v = entry[k]; break; } },
\* v initially null
FirstPresent(o, keys) ==
    LET at == {i \in 1..Len(keys) : HasKey(o, keys[i])}
    IN  IF at = {} THEN Null ELSE Get(o, keys[SetMin(at)])

preferKeys == <<"payload", "value", "content", "pattern", "domain", "host", "rule">>

fallbackKeys == <<"domain", "host", "pattern", "rule">>

hintKeys == <<"type", "rule_type", "kind">>

\* the local v of toLoonLines at line 126: the first probe, and the second
\* probe when the first left v === null
ResolveContent(o) ==
    LET v0 == FirstPresent(o, preferKeys)
    IN  IF v0 = Null THEN FirstPresent(o, fallbackKeys) ELSE v0

\* the local t of toLoonLines; "" stands for null (both fail `if (t)`)
HintOf(o) ==
    LET at == {i \in 1..Len(hintKeys) : HasKey(o, hintKeys[i])}
    IN  IF at = {} THEN ""
        ELSE toLowerCase(JsString(Get(o, hintKeys[SetMin(at)])))

\* the tag the hint t chooses, "" when no hint rule matches
HintTag(t) ==
    IF t = "" THEN ""
    ELSE IF Includes(t, "domain")
            /\ (Includes(t, "suffix") \/ t = "suffix" \/ Includes(t, "domain-suffix"))
         THEN "DOMAIN-SUFFIX"
    ELSE IF Includes(t, "domain") /\ (Includes(t, "keyword") \/ Includes(t, "key"))
         THEN "DOMAIN-KEYWORD"
    ELSE IF Includes(t, "domain") THEN "DOMAIN-SUFFIX"
    ELSE IF Includes(t, "ip") \/ Includes(t, "cidr") THEN "IP-CIDR"
    ELSE IF Includes(t, "regex") \/ Includes(t, "re") THEN "REGEX"
    ELSE ""

RECURSIVE toLoonLines(_)
RECURSIVE LinesOfAll(_)
\* for (const e of v) lines.push(...toLoonLines(e))
LinesOfAll(a) ==
    IF a = <<>> THEN <<>> ELSE toLoonLines(Head(a)) \o LinesOfAll(Tail(a))

\* toLoonLines for typeof entry === "object" && entry !== null
ObjectLines(o) ==
    LET val == ResolveContent(o)
        t == HintOf(o)
        s == Trim(JsString(val))
    IN  IF val = Null
        THEN <<"REGEX," \o escapeForRegex(JsonStringify(o))>>
        ELSE IF val.t = "arr" THEN LinesOfAll(Values(val))
        ELSE IF s = "" THEN <<>>
        ELSE IF HintTag(t) # "" THEN <<HintTag(t) \o "," \o s>>
        ELSE StringLines(s)

toLoonLines(e) ==
    IF e.t = "str" THEN StringLines(e.s)
    ELSE IF e.t \in {"obj", "arr"} THEN ObjectLines(e)
    ELSE <<>>

\* flattenJson
RuleKeys == {"rule", "type", "value", "payload", "pattern", "domain", "content", "host"}

MaxRuleKeys == 30

\* keys.every in place of keys.some
IsRuleObjectEvery(o) ==
    /\ o.t = "obj"
    /\ \A i \in 1..Len(o.a) : o.a[i].k \in RuleKeys
    /\ Len(o.a) <= MaxRuleKeys

\* keys.some(k => ruleKeys.has(k)) && keys.length <= 30
IsRuleObject(o) ==
    /\ o.t = "obj"
    /\ \E i \in 1..Len(o.a) : o.a[i].k \in RuleKeys
    /\ Len(o.a) <= MaxRuleKeys

RECURSIVE flattenJson(_)
RECURSIVE FlattenAll(_)
FlattenAll(a) ==
    IF a = <<>> THEN <<>> ELSE flattenJson(Head(a)) \o FlattenAll(Tail(a))

flattenJson(x) ==
    IF x.t \in {"null", "undef"} THEN <<>>
    ELSE IF x.t = "arr" THEN FlattenAll(Values(x))
    ELSE IF x.t = "obj"
         THEN (IF IsRuleObject(x) THEN <<x>>
               ELSE FlattenAll(Values(x)))
    ELSE <<Str(JsString(x))>>

(***************************************************************************)
(* State shared by the specifications.  A run of main has not started:     *)
(***************************************************************************)
NoFile == [written |-> FALSE, rules |-> 0, body |-> <<>>]

MainIdle ==
    /\ variant = "none"
    /\ json = Null
    /\ flat = <<>>
    /\ idx = 0
    /\ seen = {}
    /\ out = <<>>
    /\ threw = {}
    /\ fetched = "no"
    /\ file = NoFile
    /\ writes = 0
    /\ exitCode = -1

mainVars == <<variant, json, flat, idx, seen, out, threw, fetched, file, writes, exitCode>>

(***************************************************************************)
(* SpecClassify: one call of toLoonLines on a bounded set of entries.      *)
(***************************************************************************)
RECURSIVE Words(_, _)
\* the strings over alphabet of length at most n
Words(alphabet, n) ==
    IF n = 0 THEN {""}
    ELSE LET shorter == Words(alphabet, n - 1)
         IN  shorter \cup {w \o c : w \in shorter, c \in alphabet}

ClassifyAlphabet == {"a", "1", ".", "/", "|", "^", "*", " ", "#", "-", "\n"}

SeedPrefixes == {"", " ", "||", ".", "*.", "!"}

Seeds == {"", ".", "a.com", "ads.example.com", "1.2.3.4", "192.168.1.0",
          "tracker.net", "A-b.co", "a b", "x"}

SeedSuffixes == {"", "^", "/24", "/8", "-1.2.3.9", " ", "\n", "/p?x=1", "."}

StringInputs ==
    Words(ClassifyAlphabet, MaxLen)
        \cup {p \o m \o s : p \in SeedPrefixes, m \in Seeds, s \in SeedSuffixes}

ContentParts ==
    { <<>>,
      <<<<"value", Str("adserv")>>>>,
      <<<<"value", Str(" 1.2.3.4/8 ")>>>>,
      <<<<"value", Str(".")>>>>,
      <<<<"value", Str("  ")>>>>,
      <<<<"value", Null>>>>,
      <<<<"value", Num(0)>>>>,
      <<<<"value", Bool(FALSE)>>>>,
      <<<<"value", Obj(<<<<"x", Num(1)>>>>)>>>>,
      <<<<"payload", Null>>, <<"domain", Str("x.com")>>>>,
      <<<<"payload", Null>>, <<"pattern", Str("p*")>>, <<"domain", Str("d.org")>>>>,
      <<<<"domain", Str("d.org")>>, <<"payload", Str("p.net")>>>>,
      <<<<"host", Str("h.io")>>, <<"rule", Str("||r.com^")>>>>,
      <<<<"domain", Arr(<<Str("a.com"), Num(5), Str("a\nb"), Arr(<<Str("b.org")>>)>>)>>>> }

HintParts ==
    {<<>>, <<<<"type", Null>>>>, <<<<"kind", Str("regex")>>, <<"type", Str("domain")>>>>}
        \cup {<<<<"type", Str(h)>>>> :
                 h \in {"domain_keyword", "DOMAIN-SUFFIX", "domain", "ip-cidr",
                        "Domain_Regex", "keyword", "other", "", "Recidr"}}
        \cup {<<<<"rule_type", Str(h)>>>> : h \in {"cidr", "regex"}}

ExtraParts == {<<>>, <<<<"domain_suffix", Arr(<<Str("c.net")>>)>>>>}

ObjectInputs ==
    {Obj(h \o c \o x) : h \in HintParts, c \in ContentParts, x \in ExtraParts}

Entries == {Str(s) : s \in StringInputs} \cup ObjectInputs \cup {Null, Num(7)}

InitClassify ==
    /\ pc = "call"
    /\ entry \in Entries
    /\ lines = <<>>
    /\ v = Null
    /\ raw = Null
    /\ cleaned = Null
    /\ MainIdle

\* lines = toLoonLines(entry); v is the function's local v when it returns
Classify ==
    /\ pc = "call"
    /\ pc' = "ret"
    /\ lines' = toLoonLines(entry)
    /\ v' = IF entry.t \in {"obj", "arr"} THEN ResolveContent(entry) ELSE Null
    /\ UNCHANGED <<entry, raw, cleaned, mainVars>>

NextClassify == Classify

SpecClassify == InitClassify /\ [][NextClassify]_vars

(***************************************************************************)
(* Claims about toLoonLines, checked under SpecClassify.                   *)
(***************************************************************************)
Returned == pc = "ret"

Tags == {"DOMAIN-SUFFIX", "DOMAIN-KEYWORD", "IP-CIDR", "REGEX"}

\* d.d.d.d or d.d.d.d/prefix, 1-3 digits per octet, 1-2 digit prefix
IsCidrForm(s) ==
    LET slash == {i \in 1..Len(s) : Ch(s, i) = "/"}
        addr == IF slash = {} THEN s ELSE SubSeq(s, 1, SetMin(slash) - 1)
        prefix == IF slash = {} THEN "" ELSE SubSeq(s, SetMin(slash) + 1, Len(s))
    IN  /\ NumSep(addr, ".") = 3
        /\ \A p \in Pieces(addr, ".") : AllIn(p, Digits, 1, 3)
        /\ slash # {} => AllIn(prefix, Digits, 1, 2)

\* C1: every string that, trimmed, has the IPv4 CIDR form d.d.d.d or
\* d.d.d.d/prefix is classified as exactly one line IP-CIDR,<s>.
C1_CidrYieldsIpCidr ==
    (Returned /\ entry.t = "str" /\ IsCidrForm(Trim(entry.s)))
        => lines = <<"IP-CIDR," \o Trim(entry.s)>>

IsBlank(s) == Trim(s) = ""

IsCommentLine(s) == Ch(Trim(s), 1) \in {"!", "#"}

\* ||X or ||X^ (X without "/" and "^") whose X, trimmed and without its
\* leading dots, is empty
IsEmptyAnchor(s) ==
    /\ RE_ADBLOCK_PREFIX(Trim(s))
    /\ StripLeading(Trim(AdblockCapture(Trim(s))), {"."}) = ""

\* C2 as stated: every string that is neither empty after trimming nor a
\* comment line yields at least one line.
C2_Original ==
    (Returned /\ entry.t = "str" /\ ~IsBlank(entry.s) /\ ~IsCommentLine(entry.s))
        => Len(lines) >= 1

\* C2 amended: every string that is neither empty after trimming, nor a
\* comment line, nor an adblock anchor ||X / ||X^ whose X is empty once trimmed
\* and stripped of leading dots, yields at least one line.
C2_AtLeastOneLine ==
    (Returned /\ entry.t = "str" /\ ~IsBlank(entry.s) /\ ~IsCommentLine(entry.s)
        /\ ~IsEmptyAnchor(entry.s))
        => Len(lines) >= 1

\* a string starting with "." and one starting with "||" have both been
\* classified into a line
C2_Witness ==
    /\ Returned
    /\ entry.t = "str"
    /\ entry.s \in {".", "||a.com^"}
    /\ Len(lines) = 1

\* TYPE,CONTENT with TYPE one of the four tags, CONTENT not empty, no newline
WellFormedLine(l) ==
    /\ \E tag \in Tags : StartsWith(l, tag \o ",") /\ Len(l) > Len(tag) + 1
    /\ "\n" \notin Chars(l)

\* C3: every line toLoonLines emits, for any candidate, is TYPE,CONTENT with
\* TYPE one of the four tags, a non-empty CONTENT and no embedded newline.
C3_LinesWellFormed ==
    Returned => \A i \in 1..Len(lines) : WellFormedLine(lines[i])

\* C7: the content of an object candidate is the value of its first present
\* key among payload, value, content, pattern, domain, host, rule, whatever
\* that value is (a null value included).
C7_FirstPresentKeyWins ==
    (Returned /\ entry.t = "obj" /\ \E i \in 1..Len(preferKeys) : HasKey(entry, preferKeys[i]))
        => v = Get(entry, preferKeys[SetMin({i \in 1..Len(preferKeys) :
                                                HasKey(entry, preferKeys[i])})])

\* the tag the claim gives a hint t, "" when it names none
ClaimTag(t) ==
    IF Includes(t, "domain") /\ Includes(t, "suffix") THEN "DOMAIN-SUFFIX"
    ELSE IF Includes(t, "domain") /\ Includes(t, "key") THEN "DOMAIN-KEYWORD"
    ELSE IF Includes(t, "domain") THEN "DOMAIN-SUFFIX"
    ELSE IF Includes(t, "ip") \/ Includes(t, "cidr") THEN "IP-CIDR"
    ELSE IF Includes(t, "re") THEN "REGEX"
    ELSE ""

\* C8: an object candidate with a content key, whose content is not an array
\* and has the non-empty trimmed string form s, and whose hint matches a hint
\* rule, yields exactly the line TAG,s, TAG by the first matching rule.
C8_HintDirected ==
    (/\ Returned
     /\ entry.t = "obj"
     /\ \E i \in 1..Len(preferKeys) : HasKey(entry, preferKeys[i])
     /\ v.t # "arr"
     /\ Trim(JsString(v)) # ""
     /\ ClaimTag(HintOf(entry)) # "")
        => lines = <<ClaimTag(HintOf(entry)) \o "," \o Trim(JsString(v))>>

(***************************************************************************)
(* cleanDomainCandidate, the cleaner of the schema-driven variant.         *)
(***************************************************************************)
\* s.replace(/^[a-zA-Z]+:\/\//, "")
StripProtocol(s) ==
    LET n == Len(s) - Len(StripLeading(s, Letters))
    IN  IF n >= 1 /\ StartsWith(SubSeq(s, n + 1, Len(s)), "://")
        THEN SubSeq(s, n + 4, Len(s))
        ELSE s

\* s.split(/[\/\?#]/, 1)[0]
BeforePath(s) ==
    LET at == {i \in 1..Len(s) : Ch(s, i) \in {"/", "?", "#"}}
    IN  IF at = {} THEN s ELSE SubSeq(s, 1, SetMin(at) - 1)

\* s.replace(/:\d+$/, "")
StripPort(s) ==
    LET host == StripTrailing(s, Digits)
    IN  IF Len(host) < Len(s) /\ Ch(host, Len(host)) = ":"
        THEN SubSeq(host, 1, Len(host) - 1)
        ELSE s

\* s.replace(/^\*+\.*/, "").replace(/^\.+/, "")
StripWildcards(s) ==
    StripLeading(IF StartsWith(s, "*")
                 THEN StripLeading(StripLeading(s, {"*"}), {"."})
                 ELSE s, {"."})

\* s.replace(/(^[\.-]+)|([\.-]+$)/g, "")
StripEdges(s) == StripTrailing(StripLeading(s, {".", "-"}), {".", "-"})

\* Null for the null result, Str(s) for a string
cleanDomainCandidate(x) ==
    IF x.t # "str" \/ x.s = "" THEN Null
    ELSE LET s0 == Trim(x.s)
             s == toLowerCase(StripWildcards(StripPort(BeforePath(StripProtocol(s0)))))
         IN  IF s0 = "" THEN Null
             ELSE IF \E i \in 1..Len(s) : Ch(s, i) \in ({"/", "@"} \cup WhiteSpace)
                  THEN Null
             ELSE IF AllIn(s, Digits, 1, Len(s)) THEN Null
             ELSE IF ~Includes(s, ".") THEN Null
             ELSE IF ~AllIn(s, Chars(LowerAlpha) \cup Digits \cup {".", "-"}, 1, Len(s))
                  THEN Null
             ELSE IF StripEdges(s) = "" THEN Null
             ELSE Str(StripEdges(s))

(***************************************************************************)
(* SpecClean: one call of cleanDomainCandidate on a bounded set of inputs. *)
(***************************************************************************)
CleanAlphabet == {"a", "B", "1", ".", "-", ":", "/", "*", " ", "@"}

CleanSeeds ==
    {"Example.COM/path?x=1", "http://a.com:8080/x", "https://*.Ads.Example.com",
     "a.com.", "-a.com-", "*..a.com", "a.com:x", "a_b.com", "1.2.3.4", " b.org\n",
     "ftp://1234", "a.b#frag"}

CleanInputs ==
    {Str(s) : s \in Words(CleanAlphabet, MaxLen) \cup CleanSeeds} \cup {Null, Num(7)}

InitClean ==
    /\ pc = "call"
    /\ raw \in CleanInputs
    /\ cleaned = Null
    /\ entry = Null
    /\ lines = <<>>
    /\ v = Null
    /\ MainIdle

Clean ==
    /\ pc = "call"
    /\ pc' = "ret"
    /\ cleaned' = cleanDomainCandidate(raw)
    /\ UNCHANGED <<raw, entry, lines, v, mainVars>>

NextClean == Clean

SpecClean == InitClean /\ [][NextClean]_vars

\* C10: every non-null result of cleanDomainCandidate is non-empty,
\* lower-case, made only of a-z, 0-9, "." and "-", contains at least one ".",
\* and neither starts nor ends with "." or "-".
C10_CleanedIsDomain ==
    (Returned /\ cleaned # Null)
        => /\ AllIn(cleaned.s, Chars(LowerAlpha) \cup Digits \cup {".", "-"},
                    1, Len(cleaned.s))
           /\ \E i \in 1..Len(cleaned.s) : Ch(cleaned.s, i) = "."
           /\ Ch(cleaned.s, 1) \notin {".", "-"}
           /\ Ch(cleaned.s, Len(cleaned.s)) \notin {".", "-"}

(***************************************************************************)
(* main of both variants: fetch, convert, aggregate, write.                *)
(***************************************************************************)
Range(f) == {f[i] : i \in DOMAIN f}

\* for (const ln of lines) { if (!seen.has(ln)) { seen.add(ln); out.push(ln); } }
\* without the seen test
AddLinesNoDedupe(o, sn, ls) == o \o ls

\* for (const ln of lines) { if (!seen.has(ln)) { seen.add(ln); out.push(ln); } }
\* (also Set.prototype.add of the schema-driven variant, which keeps the
\* insertion order)
RECURSIVE AddLines(_, _, _)
AddLines(o, sn, ls) ==
    IF ls = <<>> THEN o
    ELSE IF Head(ls) \in sn THEN AddLines(o, sn, Tail(ls))
    ELSE AddLines(Append(o, Head(ls)), sn \cup {Head(ls)}, Tail(ls))

\* line 131 recurses and spreads a result into push(): the only place of
\* toLoonLines that can raise (RangeError), so only a candidate whose content
\* is an array may throw
MayThrow(e) ==
    IF e.t = "obj" /\ ResolveContent(e).t = "arr" THEN BOOLEAN ELSE {FALSE}

\* the try body done although toLoonLines threw
OutAfterIgnoringThrow(o, sn, e, th) == AddLines(o, sn, toLoonLines(e))

\* out after the try/catch around one candidate: a throw of toLoonLines
\* leaves the loop body before any line is added
OutAfter(o, sn, e, th) == IF th THEN o ELSE AddLines(o, sn, toLoonLines(e))

\* the catch around fetchJson swallowing the error
AfterFetchSwallowed(ok, var) == IF var = "general" THEN "flatten" ELSE "check"

\* where main continues after await fetchJson(url): a throw reaches the
\* catch, which calls process.exit(2)
AfterFetch(ok, var) ==
    IF ~ok THEN "done" ELSE IF var = "general" THEN "flatten" ELSE "check"

\* ICU root collation, primary level: punctuation "-" "," "." before the
\* digits before the letters, letters compared without case
CollationOrder == "-,.0123456789abcdefghijklmnopqrstuvwxyz"

CollationRank(c) ==
    LET at == {i \in 1..Len(CollationOrder) : Ch(CollationOrder, i) = LowerChar(c)}
    IN  IF at = {} THEN 0 ELSE SetMin(at)

\* a.localeCompare(b) < 0
RECURSIVE LocaleLess(_, _)
LocaleLess(a, b) ==
    IF b = "" THEN FALSE
    ELSE IF a = "" THEN TRUE
    ELSE IF CollationRank(Head(a)) # CollationRank(Head(b))
         THEN CollationRank(Head(a)) < CollationRank(Head(b))
    ELSE LocaleLess(Tail(a), Tail(b))

\* insert x into the sorted sequence s, after the elements not greater
RECURSIVE InsertSorted(_, _)
InsertSorted(s, x) ==
    IF s = <<>> THEN <<x>>
    ELSE IF LocaleLess(x, Head(s)) THEN <<x>> \o s
    ELSE <<Head(s)>> \o InsertSorted(Tail(s), x)

\* Array.from(outSet).sort((a,b) => a.localeCompare(b)) (a stable sort)
RECURSIVE SortLines(_)
SortLines(s) ==
    IF s = <<>> THEN <<>>
    ELSE InsertSorted(SortLines(SubSeq(s, 1, Len(s) - 1)), s[Len(s)])

\* the lines one array property of a rule object adds, in order
RECURSIVE ItemLines(_, _)
ItemLines(items, tag) ==
    IF items = <<>> THEN <<>>
    ELSE (IF Head(items).t = "str" /\ cleanDomainCandidate(Head(items)) # Null
          THEN <<tag \o "," \o cleanDomainCandidate(Head(items)).s>>
          ELSE <<>>) \o ItemLines(Tail(items), tag)

PropertyLines(ruleObj, key, tag) ==
    IF Get(ruleObj, key).t = "arr" THEN ItemLines(Values(Get(ruleObj, key)), tag)
    ELSE <<>>

\* the body of the loop over rules, for one ruleObj
RuleObjLines(ruleObj) ==
    IF ruleObj.t \notin {"obj", "arr"} THEN <<>>
    ELSE PropertyLines(ruleObj, "domain", "DOMAIN-SUFFIX")
             \o PropertyLines(ruleObj, "domain_suffix", "DOMAIN-SUFFIX")
             \o PropertyLines(ruleObj, "domain_keyword", "DOMAIN-KEYWORD")

\* the output file: the "# Rules:" count of the header and the lines after it
FileOf(ls, count) == [written |-> TRUE, rules |-> count, body |-> ls]

(***************************************************************************)
(* The documents the fetch may return.                                     *)
(***************************************************************************)
SingBoxRule ==
    Obj(<<<<"domain", Arr(<<Str("a.com"), Str("B.org")>>)>>,
          <<"domain_suffix", Arr(<<Str("c.net"), Str("a.com.")>>)>>,
          <<"domain_keyword", Arr(<<Str("ads"), Str("ad.s")>>)>>>>)

CandidatePool ==
    { Str("a.com"), Str(".a.com"), Str("# note"), SingBoxRule,
      Obj(<<<<"type", Str("domain_keyword")>>, <<"value", Str("adserv")>>>>),
      Obj(<<<<"domain_suffix", Arr(<<Str("c.net"), Str("B.org")>>)>>>>),
      Obj(<<<<"payload", Null>>, <<"domain", Str("x.com")>>>>),
      Obj(<<<<"type", Str("domain")>>, <<"domain_suffix", Arr(<<Str("c.net")>>)>>>>),
      Null, Num(7) }

RECURSIVE SeqsUpTo(_, _)
SeqsUpTo(S, n) ==
    IF n = 0 THEN {<<>>}
    ELSE LET shorter == SeqsUpTo(S, n - 1)
         IN  shorter \cup {Append(q, x) : q \in shorter, x \in S}

\* an object of n keys, the first of them "domain"
WideObject(n) ==
    Obj([i \in 1..n |->
            IF i = 1 THEN <<"domain", Arr(<<Str("a.com")>>)>>
            ELSE <<"k" \o NatToStr(i), Str("w" \o NatToStr(i % 3) \o ".io")>>])

Docs ==
    {Arr(c) : c \in SeqsUpTo(CandidatePool, MaxCands)}
        \cup {Obj(<<<<"rules", Arr(c)>>>>) : c \in SeqsUpTo(CandidatePool, MaxCands)}
        \cup CandidatePool
        \cup {Str("a.com"), Obj(<<<<"rules", Str("a.com")>>>>),
              Arr(<<Str("b.org"), SingBoxRule, Str("c.net"), Str(".b.org")>>),
              WideObject(MaxRuleKeys), WideObject(MaxRuleKeys + 1)}

Init ==
    /\ pc = "fetch"
    /\ variant \in {"general", "schema"}
    /\ json = Null
    /\ flat = <<>>
    /\ idx = 0
    /\ seen = {}
    /\ out = <<>>
    /\ threw = {}
    /\ fetched = "no"
    /\ file = NoFile
    /\ writes = 0
    /\ exitCode = -1
    /\ entry = Null
    /\ lines = <<>>
    /\ v = Null
    /\ raw = Null
    /\ cleaned = Null

classifyVars == <<entry, v, raw, cleaned>>

\* await fetchJson(opt.url): the decoded document, or a throw (status not ok,
\* transport error, body not JSON) that ends the run with exit status 2
FetchJson ==
    /\ pc = "fetch"
    /\ \E ok \in BOOLEAN :
          /\ fetched' = IF ok THEN "ok" ELSE "fail"
          /\ IF ok THEN json' \in Docs ELSE json' = json
          /\ pc' = AfterFetch(ok, variant)
          /\ exitCode' = IF AfterFetch(ok, variant) = "done" THEN 2 ELSE exitCode
    /\ UNCHANGED <<variant, flat, idx, seen, out, threw, file, writes, lines,
                   classifyVars>>

\* flat = flattenJson(jsonObj); seen = new Set(); out = []
Flatten ==
    /\ pc = "flatten"
    /\ flat' = flattenJson(json)
    /\ seen' = {}
    /\ out' = <<>>
    /\ idx' = 1
    /\ pc' = "loop"
    /\ UNCHANGED <<variant, json, threw, fetched, file, writes, exitCode, lines,
                   classifyVars>>

\* one iteration of for (const e of flat) { try { ... } catch { } }
LoopStep ==
    /\ pc = "loop"
    /\ idx <= Len(flat)
    /\ \E th \in MayThrow(flat[idx]) :
          /\ out' = OutAfter(out, seen, flat[idx], th)
          /\ seen' = IF th THEN seen ELSE seen \cup Range(toLoonLines(flat[idx]))
          /\ lines' = IF th THEN <<>> ELSE toLoonLines(flat[idx])
          /\ threw' = IF th THEN threw \cup {idx} ELSE threw
    /\ idx' = idx + 1
    /\ UNCHANGED <<pc, variant, json, flat, fetched, file, writes, exitCode,
                   classifyVars>>

\* the header and fs.writeFileSync of the general variant; a file-system
\* error reaches the catch, which calls process.exit(2)
WriteOutput ==
    /\ pc = "loop"
    /\ idx > Len(flat)
    /\ writes' = writes + 1
    /\ \E ok \in BOOLEAN :
          /\ file' = IF ok THEN FileOf(out, Len(out)) ELSE file
          /\ exitCode' = IF ok THEN 0 ELSE 2
    /\ pc' = "done"
    /\ UNCHANGED <<variant, json, flat, idx, seen, out, threw, fetched, lines,
                   classifyVars>>

\* the schema-driven variant after the fetch: j is not an object -> exit 2;
\* j.rules is not an array -> the header-only file, and return; else the loop
CheckRules ==
    /\ pc = "check"
    /\ IF json.t \notin {"obj", "arr"}
       THEN /\ pc' = "done"
            /\ exitCode' = 2
            /\ UNCHANGED <<flat, idx, seen, out, file, writes>>
       ELSE IF Get(json, "rules").t # "arr"
       THEN /\ pc' = "done"
            /\ writes' = writes + 1
            /\ \E ok \in BOOLEAN :
                  /\ file' = IF ok THEN FileOf(<<>>, 0) ELSE file
                  /\ exitCode' = IF ok THEN 0 ELSE 2
            /\ UNCHANGED <<flat, idx, seen, out>>
       ELSE /\ pc' = "rules"
            /\ flat' = Values(Get(json, "rules"))
            /\ idx' = 1
            /\ seen' = {}
            /\ out' = <<>>
            /\ UNCHANGED <<file, writes, exitCode>>
    /\ UNCHANGED <<variant, json, threw, fetched, lines, classifyVars>>

\* one iteration of for (const ruleObj of rules): outSet.add of every line
RuleStep ==
    /\ pc = "rules"
    /\ idx <= Len(flat)
    /\ out' = AddLines(out, seen, RuleObjLines(flat[idx]))
    /\ seen' = seen \cup Range(RuleObjLines(flat[idx]))
    /\ lines' = RuleObjLines(flat[idx])
    /\ idx' = idx + 1
    /\ UNCHANGED <<pc, variant, json, flat, threw, fetched, file, writes,
                   exitCode, classifyVars>>

\* lines = Array.from(outSet).sort(...); the header; fs.writeFileSync; an
\* error rejects main(), whose catch calls process.exit(2)
WriteSorted ==
    /\ pc = "rules"
    /\ idx > Len(flat)
    /\ writes' = writes + 1
    /\ \E ok \in BOOLEAN :
          /\ file' = IF ok THEN FileOf(SortLines(out), Len(SortLines(out))) ELSE file
          /\ exitCode' = IF ok THEN 0 ELSE 2
    /\ pc' = "done"
    /\ UNCHANGED <<variant, json, flat, idx, seen, out, threw, fetched, lines,
                   classifyVars>>

Next ==
    \/ FetchJson
    \/ Flatten
    \/ LoopStep
    \/ WriteOutput
    \/ CheckRules
    \/ RuleStep
    \/ WriteSorted

Spec == Init /\ [][Next]_vars

(***************************************************************************)
(* Claims about main, checked under Spec.                                  *)
(***************************************************************************)
\* s without the elements that occurred before
FirstOccurrences(s) ==
    LET keep == {i \in 1..Len(s) : \A j \in 1..(i - 1) : s[j] # s[i]}
        nth(k) == CHOOSE i \in keep : Cardinality({j \in keep : j < i}) = k - 1
    IN  [k \in 1..Cardinality(keep) |-> s[nth(k)]]

\* the lines the first n candidates produced, in production order; a
\* candidate whose classification threw produced none
RECURSIVE ProducedUpTo(_)
ProducedUpTo(n) ==
    IF n = 0 THEN <<>>
    ELSE ProducedUpTo(n - 1)
             \o (IF variant = "schema" THEN RuleObjLines(flat[n])
                 ELSE IF n \in threw THEN <<>>
                 ELSE toLoonLines(flat[n]))

NoDuplicates(s) == Cardinality(Range(s)) = Len(s)

SortedByLocale(s) == \A i \in 1..(Len(s) - 1) : LocaleLess(s[i], s[i + 1])

\* the run went through the aggregation loop and wrote the file
WroteAfterLoop == pc = "done" /\ file.written /\ idx = Len(flat) + 1

\* C4: after the aggregation loop the written rule sequence holds each
\* distinct produced line exactly once and nothing else; in the general
\* variant in order of first production, in the schema-driven variant sorted;
\* and the "# Rules:" count is the length of that sequence.
C4_Aggregation ==
    /\ file.written => file.rules = Len(file.body)
    /\ WroteAfterLoop =>
          /\ Range(file.body) = Range(ProducedUpTo(Len(flat)))
          /\ NoDuplicates(file.body)
          /\ variant = "general" => file.body = FirstOccurrences(ProducedUpTo(Len(flat)))
          /\ variant = "schema" => SortedByLocale(file.body)

\* a general run wrote two or more lines after producing one of them twice
C4_Witness ==
    /\ WroteAfterLoop
    /\ variant = "general"
    /\ Len(file.body) >= 2
    /\ Len(ProducedUpTo(Len(flat))) > Len(file.body)

\* C5: a run whose fetch fails ends with exit status 2 and never writes the
\* output file; the file is written only after a successful fetch, and at
\* most once per run.
C5_NoWriteWithoutFetch ==
    /\ writes <= 1
    /\ (writes > 0 \/ file.written) => fetched = "ok"
    /\ fetched = "fail" => (pc = "done" /\ exitCode = 2 /\ writes = 0 /\ ~file.written)

\* a run whose fetch failed has ended
C5_Witness == fetched = "fail" /\ pc = "done" /\ exitCode = 2 /\ writes = 0

\* C6: in the general variant a candidate whose classification throws adds no
\* line, the lines of the earlier candidates stay, the later candidates are
\* still classified and aggregated, and the run goes on to write the file.
C6_ThrowSkipsOneCandidate ==
    (variant = "general" /\ threw # {}) =>
        /\ out = FirstOccurrences(ProducedUpTo(idx - 1))
        /\ pc = "done" =>
              /\ idx = Len(flat) + 1
              /\ writes = 1
              /\ file.written => file.body = out

\* a run where the second of four candidates threw, and the file holds the
\* lines of the first and of the later ones
C6_Witness ==
    /\ variant = "general"
    /\ pc = "done"
    /\ threw = {2}
    /\ Len(flat) = 4
    /\ file.written
    /\ file.body = <<"DOMAIN-SUFFIX,b.org", "DOMAIN-SUFFIX,c.net">>

\* the claim's rule object: a key among the eight, and at most 30 keys
ClaimRuleObject(o) ==
    /\ o.t = "obj"
    /\ \E i \in 1..Len(o.a) :
          o.a[i].k \in {"rule", "type", "value", "payload", "pattern", "domain",
                        "content", "host"}
    /\ Len(o.a) <= 30

\* the candidates of the elements of an array, each rule object being one
RECURSIVE CandidatesOf(_)
CandidatesOf(els) ==
    IF els = <<>> THEN <<>>
    ELSE (IF ClaimRuleObject(Head(els)) THEN <<Head(els)>> ELSE flattenJson(Head(els)))
             \o CandidatesOf(Tail(els))

\* the lines of an object candidate as its resolved content and its hint
\* alone give them; with no resolved content, the one REGEX line of the
\* object's JSON text
ContentOnlyLines(o) ==
    LET hintAt == {i \in 1..Len(hintKeys) : HasKey(o, hintKeys[i])}
        hint == IF hintAt = {} THEN <<>>
                ELSE <<<<"type", Get(o, hintKeys[SetMin(hintAt)])>>>>
    IN  IF ResolveContent(o) = Null
        THEN <<"REGEX," \o escapeForRegex(JsonStringify(o))>>
        ELSE toLoonLines(Obj(hint \o <<<<"value", ResolveContent(o)>>>>))

====
